---- MODULE Spec2Model ----
(***************************************************************************)
(* u296/speaker_project: the concurrent track scheduler.                   *)
(*                                                                         *)
(* The scheduler is play_track of src/src/play.rs (with sleep_until,       *)
(* handle_note_update and handle_tempo_update), the device is              *)
(* SerialDevice::tone_update of src/src/device.rs, and the orchestrator    *)
(* (barrier, tempo bus, spawn, join) is main of src/src/main.rs.           *)
(* Time is in microseconds since the process started.                      *)
(***************************************************************************)
EXTENDS Integers, Sequences, FiniteSets, TLC

VARIABLES
    tracks,             \* the playlist: one event sequence per spawned task
    timing,             \* midi::Timing: ticks_per_beat, tick (us)
    speed,              \* args::Speed: tempo, as the octave shift o of 2^o,
                        \* and pitch, as the ratio num / den
    overflow_checks,    \* the build: TRUE panics on integer overflow, FALSE wraps
    now,                \* the clock, Instant::now()
    pc,                 \* each task's position in play_track
    idx,                \* each task's current event (index into its track)
    tick_us,            \* play_track's tick_us
    next_time,          \* play_track's next_time (sleep_until's wakeup_time)
    origin,             \* the Instant taken at play.rs:138
    remaining_ticks,    \* sleep_until's remaining_ticks
    start_wait,         \* sleep_until's start_wait
    tick_update_tx,     \* the tempo bus: every value sent so far, in order
    tick_update_rx,     \* each task's broadcast::Receiver: live?, next position
    num_timed_out,      \* tone_update's retry counter
    result,             \* each task's outcome: None, Ok, DeviceError, SendError, Panic
    start_barrier,      \* tokio Barrier: arrived, generation
    device,             \* the device mutex: 0 free, else the holder
    count_mutex,        \* the instrument_count mutex: 0 free, else the holder
    instrument_count,   \* InstrumentCount: current, max
    received,           \* per task: how many tick durations it took from the bus
    main_pc,            \* the orchestrator: join, returned
    main_result,        \* what main returns
    tones,              \* per task: the (freq, vel) commands the device took
    previous_wake       \* per task: next_time as the last event left it

vars == <<tracks, timing, speed, overflow_checks, now, pc, idx, tick_us,
          next_time, origin, remaining_ticks, start_wait, tick_update_tx,
          tick_update_rx, num_timed_out, result, start_barrier, device, count_mutex,
          instrument_count, received, main_pc, main_result, tones,
          previous_wake>>

(***************************************************************************)
(* Bounds of the model.                                                    *)
(***************************************************************************)
\* The clock advances one microsecond at a time up to MaxTime (tasks may be
\* late by that much); past it only to the wake time of a waiting task.
MaxTime == 2
\* The serial write may time out this many times in one tone_update.
MaxTimeouts == 1

(***************************************************************************)
(* Program constants.                                                      *)
(***************************************************************************)
\* broadcast::channel(8)
BusCapacity == 8
\* usize::MAX + 1 on the narrowest target Rust has (16-bit pointers); wider
\* targets wrap the same way, to a larger value.
UsizeModulus == 65536
\* 2^16: the limb of the 32-bit arithmetic below.
Limb == 65536

(***************************************************************************)
(* Events (midi::Event, midi::EventKind).                                  *)
(***************************************************************************)
NoteUpdate(d, k, v) ==
    [delta |-> d, kind |-> "NoteUpdate", key |-> k, vel |-> v, us_per_beat |-> 0]

TempoUpdate(d, t) ==
    [delta |-> d, kind |-> "TempoUpdate", key |-> 0, vel |-> 0, us_per_beat |-> t]

TrackName(d) ==
    [delta |-> d, kind |-> "TrackName", key |-> 0, vel |-> 0, us_per_beat |-> 0]

NoPayload(d) ==
    [delta |-> d, kind |-> "None", key |-> 0, vel |-> 0, us_per_beat |-> 0]

(***************************************************************************)
(* 32-bit unsigned arithmetic: a * b as u32.  The value is computed in     *)
(* 16-bit limbs, so that no intermediate exceeds TLC's 32-bit integers.    *)
(***************************************************************************)
\* x * y mod 2^16, for x, y < 2^16
MulLow16(x, y) ==
    ((((x * (y \div 256)) % 256) * 256) + x * (y % 256)) % Limb

\* the high 16 bits of x * y, for x, y < 2^16
MulHigh16(x, y) ==
    LET X == x * (y \div 256)
        Y == x * (y % 256)
        lo == (X % 256) * 256 + (Y % Limb)
    IN  (X \div 256) + (Y \div Limb) + (lo \div Limb)

\* whether a * b needs more than 32 bits
MulOverflowsU32(a, b) ==
    LET ah == a \div Limb
        al == a % Limb
        bh == b \div Limb
        bl == b % Limb
    IN  \/ (ah > 0 /\ bh > 0)
        \/ ah * bl + al * bh + MulHigh16(al, bl) >= Limb

\* a * b wrapped to 32 bits (a release build)
WrappingMulU32(a, b) ==
    LET ah == a \div Limb
        al == a % Limb
        bh == b \div Limb
        bl == b % Limb
        hi == (MulLow16(ah, bl) + MulLow16(al, bh) + MulHigh16(al, bl)) % Limb
    IN  hi * Limb + MulLow16(al, bl)

\* f64::round of n / d (half away from zero), then `as u32`; d = 0 gives
\* NaN -> 0 for n = 0 and +inf -> u32::MAX for n > 0, which the callers
\* below only ever subtract with saturation, so any value >= the minuend
\* stands for it.
RoundDiv(n, d) == (2 * n + d) \div (2 * d)

(***************************************************************************)
(* sleep_until, the tempo branch of the select (play.rs:56-71).            *)
(***************************************************************************)
\* completed_old_ticks = round(elapsed / tick_us) as u32, then
\* remaining_ticks.saturating_sub(completed_old_ticks)
CompletedOldTicks(elapsed, tick, remaining) ==
    IF tick = 0
    THEN (IF elapsed = 0 THEN 0 ELSE remaining)
    ELSE RoundDiv(elapsed, tick)

SaturatingSub(a, b) == IF b >= a THEN 0 ELSE a - b

RemainingTicks(remaining, elapsed, tick) ==
    SaturatingSub(remaining, CompletedOldTicks(elapsed, tick, remaining))

\* the u32 factor pair of lines 64-68: remaining * |new - old|
ShiftFactor(tick, new_tick_us) ==
    IF new_tick_us > tick THEN new_tick_us - tick ELSE tick - new_tick_us

\* the new wakeup_time, given the wrapped product
ShiftWakeup(wakeup_time, tick, new_tick_us, shift) ==
    IF new_tick_us > tick THEN wakeup_time + shift ELSE wakeup_time - shift

\* the whole branch: <<wakeup_time, remaining_ticks, tick_us>> afterwards
Reprice(wakeup_time, remaining, tick, new_tick_us, elapsed) ==
    LET rem == RemainingTicks(remaining, elapsed, tick)
        shift == WrappingMulU32(rem, ShiftFactor(tick, new_tick_us))
    IN  <<ShiftWakeup(wakeup_time, tick, new_tick_us, shift), rem, new_tick_us>>

RepriceOverflows(remaining, tick, new_tick_us, elapsed) ==
    MulOverflowsU32(RemainingTicks(remaining, elapsed, tick),
                    ShiftFactor(tick, new_tick_us))

(***************************************************************************)
(* key_to_frequency (play.rs:17-42) and the frequency handed to the device *)
(* (play.rs:85).  A frequency is the ratio num / den.                      *)
(***************************************************************************)
Ratio(n, d) == [num |-> n, den |-> d]

RECURSIVE TwoTo(_)
TwoTo(n) == IF n = 0 THEN 1 ELSE 2 * TwoTo(n - 1)

\* octave_8_freqs (play.rs:36-39)
Octave8Freqs ==
    <<4186, 4434, 4699, 4978, 5274, 5588, 5920, 6272, 6645, 7040, 7459, 7902>>

\* octave_8_freqs[note] / 2.0f64.powi(8 - octave)
KeyToFrequency(key) ==
    LET note == key % 12
        octave == key \div 12
    IN  IF octave <= 8
        THEN Ratio(Octave8Freqs[note + 1], TwoTo(8 - octave))
        ELSE Ratio(Octave8Freqs[note + 1] * TwoTo(octave - 8), 1)

\* u16::MAX
U16Max == 65535

\* (key_to_frequency(key) * pitch) as u16: the fraction cut off, the value
\* saturated (play.rs:85)
ToneFrequency(key, pitch) ==
    LET f == KeyToFrequency(key)
        q == (f.num * pitch.num) \div (f.den * pitch.den)
    IN  IF q > U16Max THEN U16Max ELSE q

(***************************************************************************)
(* handle_tempo_update (play.rs:112-115): round(us_per_beat / tpb / tempo) *)
(* with tempo = 2^o, an exact power of two.                                *)
(***************************************************************************)
Pow2(n) == IF n = 0 THEN 1 ELSE IF n = 1 THEN 2 ELSE 4

\* the quotient cut off instead of rounded (`as u32` without round())
UsPerTickTruncated(new_us_per_beat, ticks_per_beat, o) ==
    IF o >= 0
    THEN new_us_per_beat \div (ticks_per_beat * Pow2(o))
    ELSE (new_us_per_beat * Pow2(0 - o)) \div ticks_per_beat

\* us_per_tick_tempo_adjusted.round() as u32 (play.rs:112-115)
UsPerTickAdjusted(new_us_per_beat, ticks_per_beat, o) ==
    IF o >= 0
    THEN RoundDiv(new_us_per_beat, ticks_per_beat * Pow2(o))
    ELSE RoundDiv(new_us_per_beat * Pow2(0 - o), ticks_per_beat)

(***************************************************************************)
(* The inputs: playlists of small tracks, with the timing of the file.     *)
(***************************************************************************)
\* 2^(7/12), to four places
Fifth == Ratio(14983, 10000)

Scenario(tr, tick, tpb, o, p) ==
    [tracks |-> tr,
     timing |-> [ticks_per_beat |-> tpb, tick |-> tick],
     speed |-> [tempo |-> o, pitch |-> p]]

\* one track that changes the tempo and then plays a note
Solo ==
    Scenario(<< <<TempoUpdate(0, 1), NoteUpdate(2, 60, 64), NoteUpdate(1, 60, 0)>> >>,
             2, 1, 0, Ratio(1, 1))

\* a tempo track (its first event a tempo change at delta 0) and a note track
Duo ==
    Scenario(<< <<TempoUpdate(0, 1), NoteUpdate(1, 60, 64)>>,
                <<NoteUpdate(2, 62, 64)>> >>,
             2, 1, 0, Ratio(1, 1))

\* a slower tempo arriving while the other track waits
Slower ==
    Scenario(<< <<NoPayload(1), TempoUpdate(0, 3)>>,
                <<TrackName(0), NoteUpdate(2, 64, 1)>> >>,
             1, 1, 0, Fifth)

\* a note-off with no note-on before it
Unmatched ==
    Scenario(<< <<NoteUpdate(0, 60, 0)>>, <<NoteUpdate(1, 62, 64)>> >>, 1, 1, 0,
             Ratio(1, 1))

\* three tracks
Trio ==
    Scenario(<< <<TrackName(0)>>, <<NoPayload(0)>>, <<TempoUpdate(0, 2)>> >>,
             1, 1, 1, Ratio(2, 1))

\* a silence of more than 2^32 microseconds between two events
Wide ==
    Scenario(<< <<NoPayload(10000000), NoPayload(1)>> >>, 500, 1, 0,
             Ratio(1, 1))

\* more tempo changes at one tick than the bus holds, then two waits
Storm ==
    Scenario(<< <<TempoUpdate(0, 1), TempoUpdate(0, 1), TempoUpdate(0, 1),
                  TempoUpdate(0, 1), TempoUpdate(0, 1), TempoUpdate(0, 1),
                  TempoUpdate(0, 1), TempoUpdate(0, 1), TempoUpdate(0, 1),
                  NoPayload(1), NoPayload(1)>> >>,
             2, 1, 0, Ratio(1, 1))

Scenarios == {Solo, Duo, Slower, Unmatched, Trio, Wide, Storm}

\* the events of a track up to its i-th, in ticks
RECURSIVE SumDeltas(_, _)
SumDeltas(track, i) ==
    IF i = 0 THEN 0 ELSE track[i].delta + SumDeltas(track, i - 1)

Tasks == 1 .. Len(tracks)

Finished(t) == pc[t] \in {"done", "failed", "panicked"}

CurrentEvent(t) == tracks[t][idx[t]]

\* a barrier sized one party short
BarrierOneShort(n) == n - 1

\* Barrier::new(playlist_order.len()) (main.rs:177)
BarrierParties(n) == n

\* (sender, _) = broadcast::channel(8): the first receiver is dropped at once,
\* and play_track subscribes after the barrier (play.rs:136)
NoReceiver == [sub |-> FALSE, next |-> 0]

\* the values a receiver has still to take
Pending(t) == Len(tick_update_tx) - tick_update_rx[t].next

\* the ring holds BusCapacity values: a receiver further behind has lost
\* the oldest, and its next recv says so
Lagged(t) == Pending(t) > BusCapacity

Init ==
    /\ \E s \in Scenarios :
          /\ tracks = s.tracks
          /\ timing = s.timing
          /\ speed = s.speed
    /\ overflow_checks \in BOOLEAN
    /\ now = 0
    /\ pc = [t \in Tasks |-> "spawned"]
    /\ idx = [t \in Tasks |-> 0]
    /\ tick_us = [t \in Tasks |-> 0]
    /\ next_time = [t \in Tasks |-> 0]
    /\ origin = [t \in Tasks |-> 0]
    /\ remaining_ticks = [t \in Tasks |-> 0]
    /\ start_wait = [t \in Tasks |-> 0]
    /\ tick_update_tx = <<>>
    /\ tick_update_rx = [t \in Tasks |-> NoReceiver]
    /\ num_timed_out = [t \in Tasks |-> 0]
    /\ result = [t \in Tasks |-> "None"]
    /\ start_barrier = [arrived |-> 0, generation |-> 0]
    /\ device = 0
    /\ count_mutex = 0
    /\ instrument_count = [current |-> 0, max |-> 0]
    /\ received = [t \in Tasks |-> 0]
    /\ main_pc = "join"
    /\ main_result = <<"None", 0>>
    /\ tones = [t \in Tasks |-> <<>>]
    /\ previous_wake = [t \in Tasks |-> 0]

(***************************************************************************)
(* play_track (play.rs:122-177).                                           *)
(***************************************************************************)
\* a task ends: its locals are dropped, the receiver among them
Leave(t, at, res) ==
    /\ pc' = [pc EXCEPT ![t] = at]
    /\ result' = [result EXCEPT ![t] = res]
    /\ tick_update_rx' = [tick_update_rx EXCEPT ![t] = NoReceiver]
    /\ tick_us' = [tick_us EXCEPT ![t] = 0]
    /\ next_time' = [next_time EXCEPT ![t] = 0]
    /\ origin' = [origin EXCEPT ![t] = 0]
    /\ remaining_ticks' = [remaining_ticks EXCEPT ![t] = 0]
    /\ start_wait' = [start_wait EXCEPT ![t] = 0]
    /\ num_timed_out' = [num_timed_out EXCEPT ![t] = 0]
    /\ previous_wake' = [previous_wake EXCEPT ![t] = 0]

\* start_barrier.wait(): arrive (play.rs:131)
BarrierWait(t) ==
    /\ pc[t] = "spawned"
    /\ start_barrier' =
          IF start_barrier.arrived + 1 >= BarrierParties(Len(tracks))
          THEN [arrived |-> 0, generation |-> start_barrier.generation + 1]
          ELSE [start_barrier EXCEPT !.arrived = @ + 1]
    /\ pc' = [pc EXCEPT ![t] = "barrier"]
    /\ UNCHANGED <<tracks, timing, speed, tones, previous_wake,
                   overflow_checks, tick_update_tx, now, idx, tick_us,
                   next_time, origin, remaining_ticks, start_wait,
                   tick_update_rx, num_timed_out, result, device, count_mutex,
                   instrument_count, received, main_pc, main_result>>

\* the wait returns; tick_us, subscribe(), next_time = Instant::now()
\* (play.rs:131-138)
Start(t) ==
    /\ pc[t] = "barrier"
    /\ start_barrier.generation > 0
    /\ tick_us' = [tick_us EXCEPT ![t] = timing.tick]
    /\ tick_update_rx' = [tick_update_rx EXCEPT ![t] =
                             [sub |-> TRUE, next |-> Len(tick_update_tx)]]
    /\ next_time' = [next_time EXCEPT ![t] = now]
    /\ origin' = [origin EXCEPT ![t] = now]
    /\ pc' = [pc EXCEPT ![t] = "next"]
    /\ UNCHANGED <<tracks, timing, speed, tones, previous_wake,
                   overflow_checks, tick_update_tx, now, idx,
                   remaining_ticks, start_wait, num_timed_out, result,
                   start_barrier, device, count_mutex, instrument_count,
                   received, main_pc, main_result>>

\* the product taken in 16 bits
AdvanceWake16(wake, delta, tick) == wake + MulLow16(delta % Limb, tick % Limb)

\* next_time += delta * tick_us (play.rs:141)
AdvanceWake(wake, delta, tick) == wake + WrappingMulU32(delta, tick)

\* the for loop takes the next event: advance next_time and enter
\* sleep_until, whose loop reads start_wait (play.rs:140-149, 50-51)
BeginEvent(t) ==
    /\ pc[t] = "next"
    /\ idx[t] < Len(tracks[t])
    /\ LET e == tracks[t][idx[t] + 1]
       IN  IF overflow_checks /\ MulOverflowsU32(e.delta, tick_us[t])
           THEN /\ Leave(t, "panicked", "Panic")
                /\ UNCHANGED idx
           ELSE /\ idx' = [idx EXCEPT ![t] = @ + 1]
                /\ previous_wake' = [previous_wake EXCEPT ![t] = next_time[t]]
                /\ next_time' = [next_time EXCEPT ![t] =
                                    AdvanceWake(@, e.delta, tick_us[t])]
                /\ remaining_ticks' = [remaining_ticks EXCEPT ![t] = e.delta]
                /\ start_wait' = [start_wait EXCEPT ![t] = now]
                /\ pc' = [pc EXCEPT ![t] = "select"]
                /\ UNCHANGED <<result, tick_update_rx, tick_us, origin,
                               num_timed_out>>
    /\ UNCHANGED <<tracks, timing, speed, tones, overflow_checks,
                   tick_update_tx, now, start_barrier,
                   device, count_mutex, instrument_count, received, main_pc,
                   main_result>>

\* the track is exhausted: Ok(()) (play.rs:176)
Return(t) ==
    /\ pc[t] = "next"
    /\ idx[t] = Len(tracks[t])
    /\ Leave(t, "done", "Ok")
    /\ UNCHANGED <<tracks, timing, speed, tones, overflow_checks,
                   tick_update_tx, now, idx,
                   start_barrier, device, count_mutex, instrument_count,
                   received, main_pc, main_result>>

\* sleep_until's loop comes round again: start_wait = Instant::now()
\* (play.rs:50-51)
StartWait(t) ==
    /\ pc[t] = "loop"
    /\ start_wait' = [start_wait EXCEPT ![t] = now]
    /\ pc' = [pc EXCEPT ![t] = "select"]
    /\ UNCHANGED <<tracks, timing, speed, tones, previous_wake,
                   overflow_checks, tick_update_tx, now, idx, tick_us,
                   next_time, origin, remaining_ticks, tick_update_rx,
                   num_timed_out, result, start_barrier, device, count_mutex,
                   instrument_count, received, main_pc, main_result>>

\* a match whose last arm sends a tone for every other kind of event
DispatchEvery(e) == IF e.kind = "TempoUpdate" THEN "tempo" ELSE "note"

\* where the match of play.rs:151-174 goes for an event
DispatchPc(e) ==
    CASE e.kind = "NoteUpdate" -> "note"
      [] e.kind = "TempoUpdate" -> "tempo"
      [] OTHER -> "next"

\* tokio::time::sleep_until(*wakeup_time) completes: break (play.rs:53-55);
\* sleep_until returns and its locals are gone
TimerExpired(t) ==
    /\ pc[t] \in {"select", "sleep"}
    /\ now >= next_time[t]
    /\ pc' = [pc EXCEPT ![t] = DispatchPc(CurrentEvent(t))]
    /\ remaining_ticks' = [remaining_ticks EXCEPT ![t] = 0]
    /\ start_wait' = [start_wait EXCEPT ![t] = 0]
    /\ UNCHANGED <<tracks, timing, speed, tones, previous_wake,
                   overflow_checks, tick_update_tx, now, idx, tick_us,
                   next_time, origin, tick_update_rx, num_timed_out, result,
                   start_barrier, device, count_mutex, instrument_count,
                   received, main_pc, main_result>>

\* the tempo branch ending the wait like the timer's
RecvBreaks(e) == DispatchPc(e)

\* where the tempo branch leaves sleep_until: it has no break, the loop
\* comes round (play.rs:50, 56-71)
AfterRecv(e) == "loop"

\* Ok(new_tick_us) = tick_update_rx.recv() (play.rs:56-71)
RecvTick(t) ==
    /\ pc[t] = "select"
    /\ tick_update_rx[t].sub
    /\ Pending(t) > 0
    /\ ~Lagged(t)
    /\ LET new_tick_us == tick_update_tx[tick_update_rx[t].next + 1].val
           elapsed == now - start_wait[t]
           after == Reprice(next_time[t], remaining_ticks[t], tick_us[t],
                            new_tick_us, elapsed)
       IN  IF overflow_checks
              /\ RepriceOverflows(remaining_ticks[t], tick_us[t], new_tick_us, elapsed)
           THEN /\ Leave(t, "panicked", "Panic")
                /\ UNCHANGED received
           ELSE /\ next_time' = [next_time EXCEPT ![t] = after[1]]
                /\ remaining_ticks' = [remaining_ticks EXCEPT ![t] = after[2]]
                /\ tick_us' = [tick_us EXCEPT ![t] = after[3]]
                /\ tick_update_rx' = [tick_update_rx EXCEPT ![t].next = @ + 1]
                /\ received' = [received EXCEPT ![t] = @ + 1]
                /\ pc' = [pc EXCEPT ![t] = AfterRecv(CurrentEvent(t))]
                /\ UNCHANGED <<result, origin, start_wait, num_timed_out,
                               previous_wake>>
    /\ UNCHANGED <<tracks, timing, speed, tones, overflow_checks,
                   tick_update_tx, now, idx,
                   start_barrier, device, count_mutex, instrument_count,
                   main_pc, main_result>>

\* the select entered anew after the error
LaggedRetries == "loop"

\* where a recv that does not match Ok(new_tick_us) leaves the select: the
\* branch is disabled and the timer alone remains (play.rs:52-56)
AfterLagged == "sleep"

\* tick_update_rx.recv() returns Err(Lagged): the receiver moves on to the
\* oldest value the ring still holds (play.rs:56)
RecvLagged(t) ==
    /\ pc[t] = "select"
    /\ tick_update_rx[t].sub
    /\ Lagged(t)
    /\ tick_update_rx' = [tick_update_rx EXCEPT ![t].next =
                             Len(tick_update_tx) - BusCapacity]
    /\ pc' = [pc EXCEPT ![t] = AfterLagged]
    /\ UNCHANGED <<tracks, timing, speed, tones, previous_wake, overflow_checks,
                   tick_update_tx, now, idx, tick_us, next_time, origin,
                   remaining_ticks, start_wait, num_timed_out, result,
                   start_barrier, device, count_mutex, instrument_count,
                   received, main_pc, main_result>>

(***************************************************************************)
(* handle_note_update (play.rs:76-104) and SerialDevice::tone_update       *)
(* (device.rs:177-196).                                                    *)
(***************************************************************************)
\* device.lock().await (play.rs:83)
DeviceLock(t) ==
    /\ pc[t] = "note"
    /\ device = 0
    /\ device' = t
    /\ num_timed_out' = [num_timed_out EXCEPT ![t] = 1]
    /\ pc' = [pc EXCEPT ![t] = "tone"]
    /\ UNCHANGED <<tracks, timing, speed, tones, previous_wake,
                   overflow_checks, tick_update_tx, now, idx, tick_us,
                   next_time, origin, remaining_ticks, start_wait,
                   tick_update_rx, result, start_barrier, count_mutex,
                   instrument_count, received, main_pc, main_result>>

\* the guard kept past the command
KeepsDeviceLock == FALSE

\* whether the guard is released once the command has returned Ok
\* (drop(device_lock), play.rs:88)
DropsDeviceLock == TRUE

\* write_all returns Ok: tone_update returns Ok (device.rs:188), and the
\* guard is dropped (play.rs:88)
ToneOk(t) ==
    /\ pc[t] = "tone"
    /\ device' = IF DropsDeviceLock THEN 0 ELSE device
    /\ pc' = [pc EXCEPT ![t] = "count"]
    /\ num_timed_out' = [num_timed_out EXCEPT ![t] = 0]
    /\ tones' = [tones EXCEPT ![t] =
                    Append(@, [freq |-> ToneFrequency(CurrentEvent(t).key,
                                                      speed.pitch),
                               vel |-> CurrentEvent(t).vel])]
    /\ UNCHANGED <<tracks, timing, speed, previous_wake, overflow_checks,
                   tick_update_tx, now, idx, tick_us,
                   next_time, origin, remaining_ticks, start_wait,
                   tick_update_rx, result, start_barrier,
                   count_mutex, instrument_count, received, main_pc,
                   main_result>>

\* a timed-out write taken for a failure
TimedOutReturns == "failed"

\* where the TimedOut arm leaves tone_update: it only prints, and the loop
\* writes again (device.rs:190)
AfterTimedOut == "tone"

\* write_all fails with ErrorKind::TimedOut: count it and write again
\* (device.rs:190, 194)
ToneTimedOut(t) ==
    /\ pc[t] = "tone"
    /\ num_timed_out[t] <= MaxTimeouts
    /\ num_timed_out' = [num_timed_out EXCEPT ![t] = @ + 1]
    /\ pc' = [pc EXCEPT ![t] = AfterTimedOut]
    /\ UNCHANGED <<tracks, timing, speed, tones, previous_wake,
                   overflow_checks, tick_update_tx, now, idx, tick_us,
                   next_time, origin, remaining_ticks, start_wait,
                   tick_update_rx, result, start_barrier, device, count_mutex,
                   instrument_count, received, main_pc, main_result>>

\* the guard leaked on the error path
GuardLeaked(t) == t

\* the device mutex once `?` has returned the error out of
\* handle_note_update: the guard is dropped with the frame (play.rs:83-86)
GuardAfterError(t) == 0

\* the note counted although its command failed
CountOnError(ic, vel) ==
    IF vel # 0
    THEN [current |-> ic.current + 1,
          max |-> IF ic.current + 1 > ic.max THEN ic.current + 1 ELSE ic.max]
    ELSE ic

\* the counter once `?` has returned the error: lines 90-101 are not
\* reached (play.rs:86)
CountAfterError(ic, vel) == ic

\* write_all fails otherwise: tone_update returns the error (device.rs:191),
\* `?` returns it from handle_note_update and play_track, dropping the guard
ToneError(t) ==
    /\ pc[t] = "tone"
    /\ device' = GuardAfterError(t)
    /\ instrument_count' = CountAfterError(instrument_count, CurrentEvent(t).vel)
    /\ Leave(t, "failed", "DeviceError")
    /\ UNCHANGED <<tracks, timing, speed, tones, overflow_checks,
                   tick_update_tx, now, idx,
                   start_barrier, count_mutex, received, main_pc, main_result>>

\* instrument_count.lock().await (play.rs:90)
CountLock(t) ==
    /\ pc[t] = "count"
    /\ count_mutex = 0
    /\ count_mutex' = t
    /\ pc' = [pc EXCEPT ![t] = "counting"]
    /\ UNCHANGED <<tracks, timing, speed, tones, previous_wake,
                   overflow_checks, tick_update_tx, now, idx, tick_us,
                   next_time, origin, remaining_ticks, start_wait,
                   tick_update_rx, num_timed_out, result, start_barrier, device,
                   instrument_count, received, main_pc, main_result>>

\* current -= 1 on a usize (play.rs:99), in a build that wraps
DecrementCurrent(current) == (current + UsizeModulus - 1) % UsizeModulus

\* current += 1 on a usize (play.rs:92), in a build that wraps
IncrementCurrent(current) == (current + 1) % UsizeModulus

\* max following current down as well as up
CountNoteMaxFollows(ic, vel) ==
    LET c == IF vel # 0
             THEN IncrementCurrent(ic.current)
             ELSE DecrementCurrent(ic.current)
    IN  [current |-> c, max |-> c]

\* lines 91-100 on the counter
CountNote(ic, vel) ==
    IF vel # 0
    THEN LET c == IncrementCurrent(ic.current)
         IN  [current |-> c, max |-> IF c > ic.max THEN c ELSE ic.max]
    ELSE [ic EXCEPT !.current = DecrementCurrent(@)]

\* whether lines 92 / 99 overflow the usize
CountOverflows(ic, vel) ==
    IF vel # 0 THEN ic.current = UsizeModulus - 1 ELSE ic.current = 0

\* the critical section of play.rs:91-101; a panic unwinds through the guard
CountUpdate(t) ==
    /\ pc[t] = "counting"
    /\ count_mutex' = 0
    /\ LET vel == CurrentEvent(t).vel
       IN  IF overflow_checks /\ CountOverflows(instrument_count, vel)
           THEN /\ Leave(t, "panicked", "Panic")
                /\ UNCHANGED instrument_count
           ELSE /\ instrument_count' = CountNote(instrument_count, vel)
                /\ pc' = [pc EXCEPT ![t] = "next"]
                /\ UNCHANGED <<result, tick_update_rx, tick_us, next_time,
                               origin, remaining_ticks, start_wait,
                               num_timed_out, previous_wake>>
    /\ UNCHANGED <<tracks, timing, speed, tones, overflow_checks,
                   tick_update_tx, now, idx,
                   start_barrier, device, received, main_pc, main_result>>

(***************************************************************************)
(* handle_tempo_update (play.rs:106-120).                                  *)
(***************************************************************************)
\* the sender's own receiver dropped before the send
SubscribersButSender(t) == {u \in Tasks \ {t} : tick_update_rx[u].sub}

\* the receivers a send reaches: every live subscription, the sender's own
\* among them (it subscribed at play.rs:136 and has not dropped it)
Subscribers(t) == {u \in Tasks : tick_update_rx[u].sub}

\* tick_update_tx.send(us_per_tick_tempo_adjusted.round() as u32)?
TempoSend(t) ==
    /\ pc[t] = "tempo"
    /\ LET v == UsPerTickAdjusted(CurrentEvent(t).us_per_beat,
                                  timing.ticks_per_beat, speed.tempo)
       IN  IF Subscribers(t) = {}
           THEN /\ Leave(t, "failed", "SendError")
                /\ UNCHANGED tick_update_tx
           ELSE /\ tick_update_tx' = Append(tick_update_tx, [val |-> v, from |-> t])
                /\ pc' = [pc EXCEPT ![t] = "next"]
                /\ UNCHANGED <<result, tick_update_rx, tick_us, next_time,
                               origin,
                               remaining_ticks, start_wait, num_timed_out,
                               previous_wake>>
    /\ UNCHANGED <<tracks, timing, speed, tones, overflow_checks, now, idx,
                   start_barrier, device, count_mutex, instrument_count,
                   received, main_pc, main_result>>

(***************************************************************************)
(* main (main.rs:177-204): join_all, then the first failure in task order. *)
(***************************************************************************)
\* a join that is ready as soon as one task is
JoinAny == \E t \in Tasks : Finished(t)

\* f.await: join_all is ready once every task is
JoinReady == \A t \in Tasks : Finished(t)

\* for i in f.await { match i? { Ok(_) => (), Err(e) => return Err(e) } }
FirstError ==
    IF \A t \in Tasks : result[t] = "Ok"
    THEN <<"Ok", 0>>
    ELSE LET t == CHOOSE u \in Tasks :
                     /\ result[u] # "Ok"
                     /\ \A w \in Tasks : w < u => result[w] = "Ok"
         IN  <<result[t], t>>

MainReturn ==
    /\ main_pc = "join"
    /\ JoinReady
    /\ main_pc' = "returned"
    /\ main_result' = FirstError
    /\ UNCHANGED <<tracks, timing, speed, tones, previous_wake,
                   overflow_checks, tick_update_tx, now, pc, idx, tick_us,
                   next_time, origin, remaining_ticks, start_wait,
                   tick_update_rx, num_timed_out, result, start_barrier, device,
                   count_mutex, instrument_count, received>>

(***************************************************************************)
(* The clock.                                                              *)
(***************************************************************************)
Waiting(t) == pc[t] \in {"select", "loop", "sleep"} /\ next_time[t] > now

Tick ==
    /\ \E later \in {now + 1 : x \in {y \in {1} : now < MaxTime}}
                    \cup {next_time[t] : t \in {u \in Tasks : Waiting(u)}} :
          now' = later
    /\ UNCHANGED <<tracks, timing, speed, tones, previous_wake,
                   overflow_checks, tick_update_tx, pc, idx, tick_us,
                   next_time, origin, remaining_ticks, start_wait,
                   tick_update_rx, num_timed_out, result, start_barrier, device,
                   count_mutex, instrument_count, received, main_pc,
                   main_result>>

Next ==
    \/ \E t \in Tasks : BarrierWait(t)
    \/ \E t \in Tasks : Start(t)
    \/ \E t \in Tasks : BeginEvent(t)
    \/ \E t \in Tasks : Return(t)
    \/ \E t \in Tasks : StartWait(t)
    \/ \E t \in Tasks : TimerExpired(t)
    \/ \E t \in Tasks : RecvTick(t)
    \/ \E t \in Tasks : RecvLagged(t)
    \/ \E t \in Tasks : DeviceLock(t)
    \/ \E t \in Tasks : ToneOk(t)
    \/ \E t \in Tasks : ToneTimedOut(t)
    \/ \E t \in Tasks : ToneError(t)
    \/ \E t \in Tasks : CountLock(t)
    \/ \E t \in Tasks : CountUpdate(t)
    \/ \E t \in Tasks : TempoSend(t)
    \/ MainReturn
    \/ Tick

Spec == Init /\ [][Next]_vars

\* the runtime keeps polling whatever is ready, and time passes
SpecFair == Spec /\ WF_vars(Next)

(***************************************************************************)
(* The tempo branch of sleep_until on drawn inputs: task 1 is in the timed *)
(* wait of its only event (delta d, tick duration old, begun at 0), task 2 *)
(* has just broadcast new, and the clock reads elapsed.                    *)
(***************************************************************************)
DriftDeltas == {0, 1, 280, 480, 100000}
DriftOld == {1, 250, 500}
DriftNew == {250, 500, 1000, 50000}
DriftElapsed == {0, 125, 100000, 300000}

InitDrift ==
    /\ \E d \in DriftDeltas, old \in DriftOld, new \in DriftNew,
          elapsed \in DriftElapsed :
          /\ tracks = << <<NoPayload(d)>>, <<TempoUpdate(0, new)>> >>
          /\ timing = [ticks_per_beat |-> 1, tick |-> old]
          /\ now = elapsed
          /\ tick_us = <<old, old>>
          /\ next_time = <<AdvanceWake(0, d, old), 0>>
          /\ remaining_ticks = <<d, 0>>
          /\ tick_update_tx = <<[val |-> UsPerTickAdjusted(new, 1, 0), from |-> 2]>>
    /\ speed = [tempo |-> 0, pitch |-> Ratio(1, 1)]
    /\ overflow_checks \in BOOLEAN
    /\ pc = <<"select", "next">>
    /\ idx = <<1, 1>>
    /\ origin = <<0, 0>>
    /\ start_wait = <<0, 0>>
    /\ tick_update_rx = <<[sub |-> TRUE, next |-> 0], [sub |-> TRUE, next |-> 0]>>
    /\ num_timed_out = <<0, 0>>
    /\ result = <<"None", "None">>
    /\ start_barrier = [arrived |-> 0, generation |-> 1]
    /\ device = 0
    /\ count_mutex = 0
    /\ instrument_count = [current |-> 0, max |-> 0]
    /\ received = <<0, 0>>
    /\ main_pc = "join"
    /\ main_result = <<"None", 0>>
    /\ tones = [t \in Tasks |-> <<>>]
    /\ previous_wake = [t \in Tasks |-> 0]

NextDrift == \E t \in Tasks : RecvTick(t)

SpecDrift == InitDrift /\ [][NextDrift]_vars

(***************************************************************************)
(* handle_tempo_update on drawn inputs: the only task is about to dispatch *)
(* TempoUpdate(new) with the file's ticks per beat and the tempo octave.   *)
(***************************************************************************)
TempoBeats == {1, 3, 500000, 500001, 600000, 1000000, 16777215}
TempoTicksPerBeat == {1, 2, 96, 480}
TempoOctaves == {0 - 1, 0, 1}

InitTempo ==
    /\ \E new \in TempoBeats, tpb \in TempoTicksPerBeat, o \in TempoOctaves :
          /\ tracks = << <<TempoUpdate(0, new)>> >>
          /\ timing = [ticks_per_beat |-> tpb, tick |-> 500]
          /\ speed = [tempo |-> o, pitch |-> Ratio(1, 1)]
    /\ overflow_checks \in BOOLEAN
    /\ now = 0
    /\ pc = <<"tempo">>
    /\ idx = <<1>>
    /\ tick_us = <<500>>
    /\ next_time = <<0>>
    /\ origin = <<0>>
    /\ remaining_ticks = <<0>>
    /\ start_wait = <<0>>
    /\ tick_update_tx = <<>>
    /\ tick_update_rx = <<[sub |-> TRUE, next |-> 0]>>
    /\ num_timed_out = <<0>>
    /\ result = <<"None">>
    /\ start_barrier = [arrived |-> 0, generation |-> 1]
    /\ device = 0
    /\ count_mutex = 0
    /\ instrument_count = [current |-> 0, max |-> 0]
    /\ received = <<0>>
    /\ main_pc = "join"
    /\ main_result = <<"None", 0>>
    /\ tones = [t \in Tasks |-> <<>>]
    /\ previous_wake = [t \in Tasks |-> 0]

NextTempo == \E t \in Tasks : TempoSend(t)

SpecTempo == InitTempo /\ [][NextTempo]_vars

(***************************************************************************)
(* The device command of handle_note_update on drawn inputs: the only task *)
(* holds the device and writes the tone of NoteUpdate(key, 64).            *)
(***************************************************************************)
PitchKeys == 0 .. 127
Pitches == {Ratio(1, 2), Ratio(1, 1), Fifth, Ratio(2, 1)}

InitPitch ==
    /\ \E key \in PitchKeys, p \in Pitches :
          /\ tracks = << <<NoteUpdate(0, key, 64)>> >>
          /\ speed = [tempo |-> 0, pitch |-> p]
    /\ timing = [ticks_per_beat |-> 1, tick |-> 500]
    /\ overflow_checks \in BOOLEAN
    /\ now = 0
    /\ pc = <<"tone">>
    /\ idx = <<1>>
    /\ tick_us = <<500>>
    /\ next_time = <<0>>
    /\ origin = <<0>>
    /\ remaining_ticks = <<0>>
    /\ start_wait = <<0>>
    /\ tick_update_tx = <<>>
    /\ tick_update_rx = <<[sub |-> TRUE, next |-> 0]>>
    /\ num_timed_out = <<1>>
    /\ result = <<"None">>
    /\ start_barrier = [arrived |-> 0, generation |-> 1]
    /\ device = 1
    /\ count_mutex = 0
    /\ instrument_count = [current |-> 0, max |-> 0]
    /\ received = <<0>>
    /\ main_pc = "join"
    /\ main_result = <<"None", 0>>
    /\ tones = << <<>> >>
    /\ previous_wake = <<0>>

NextPitch == \E t \in Tasks : ToneOk(t)

SpecPitch == InitPitch /\ [][NextPitch]_vars

(***************************************************************************)
(* sleep_until with several tick durations in one wait: task 1 waits for   *)
(* its only event (delta d, tick duration old, begun at 0), task 2 has     *)
(* broadcast first and then second, and task 1 is polled after some time.  *)
(***************************************************************************)
RepeatDeltas == {4, 480, 100000}
RepeatOld == {1, 500}
RepeatFirst == {250, 1000, 50000}
RepeatSecond == {1, 500, 2000}
RepeatElapsed == {125, 100000}

InitRepeat ==
    /\ \E d \in RepeatDeltas, old \in RepeatOld, first \in RepeatFirst,
          second \in RepeatSecond :
          /\ tracks = << <<NoPayload(d)>>,
                         <<TempoUpdate(0, first), TempoUpdate(0, second)>> >>
          /\ timing = [ticks_per_beat |-> 1, tick |-> old]
          /\ tick_us = <<old, old>>
          /\ next_time = <<AdvanceWake(0, d, old), 0>>
          /\ remaining_ticks = <<d, 0>>
          /\ tick_update_tx = <<[val |-> UsPerTickAdjusted(first, 1, 0), from |-> 2],
                                [val |-> UsPerTickAdjusted(second, 1, 0), from |-> 2]>>
    /\ speed = [tempo |-> 0, pitch |-> Ratio(1, 1)]
    /\ overflow_checks \in BOOLEAN
    /\ now = 0
    /\ pc = <<"select", "next">>
    /\ idx = <<1, 2>>
    /\ origin = <<0, 0>>
    /\ start_wait = <<0, 0>>
    /\ tick_update_rx = <<[sub |-> TRUE, next |-> 0], [sub |-> TRUE, next |-> 0]>>
    /\ num_timed_out = <<0, 0>>
    /\ result = <<"None", "None">>
    /\ start_barrier = [arrived |-> 0, generation |-> 1]
    /\ device = 0
    /\ count_mutex = 0
    /\ instrument_count = [current |-> 0, max |-> 0]
    /\ received = <<0, 0>>
    /\ main_pc = "join"
    /\ main_result = <<"None", 0>>
    /\ tones = << <<>>, <<>> >>
    /\ previous_wake = <<0, 0>>

\* time passes between the start of a round of the loop and the poll that
\* finds a value on the bus (play.rs:51, 57)
Elapse(t) ==
    /\ pc[t] = "select"
    /\ now = start_wait[t]
    /\ \E e \in RepeatElapsed : now' = now + e
    /\ UNCHANGED <<tracks, timing, speed, tones, previous_wake,
                   overflow_checks, tick_update_tx,
                   pc, idx, tick_us, next_time, origin, remaining_ticks,
                   start_wait, tick_update_rx, num_timed_out, result,
                   start_barrier, device, count_mutex, instrument_count,
                   received, main_pc, main_result>>

NextRepeat ==
    \/ \E t \in Tasks : RecvTick(t)
    \/ \E t \in Tasks : StartWait(t)
    \/ \E t \in Tasks : Elapse(t)

SpecRepeat == InitRepeat /\ [][NextRepeat]_vars

(***************************************************************************)
(* The claims.                                                             *)
(***************************************************************************)
\* C1: start barrier.  A task that has returned from the barrier wait (and so
\* may have taken its origin, subscribed, or begun its first wait) implies
\* that every task has called the barrier wait.
StartBarrierHoldsAll ==
    \A t \in Tasks :
        (pc[t] \notin {"spawned", "barrier"} \/ tick_update_rx[t].sub)
            => \A u \in Tasks : pc[u] # "spawned"

\* C1 witness: of three tasks one is in its first timed wait while another
\* has arrived at the barrier and not yet returned from it.
StartBarrierWitness ==
    /\ Len(tracks) = 3
    /\ \E t, u \in Tasks : pc[t] = "select" /\ idx[t] = 1 /\ pc[u] = "barrier"

\* C3: self-broadcast exclusion.  No task takes from its own subscription a
\* value that it broadcast itself.
NoSelfReceive ==
    [][\A t \in Tasks :
          received'[t] = received[t] + 1
              => tick_update_tx[tick_update_rx[t].next + 1].from # t]_vars

\* C4: counter invariant.  Outside the counter's lock, current >= 0 and
\* max >= current.
CounterInvariant ==
    count_mutex = 0
        => /\ instrument_count.current >= 0
           /\ instrument_count.max >= instrument_count.current

\* C5: tempo propagation.  Every value on the bus that another task sent has
\* been delivered to every unfinished task: the task is subscribed, and was
\* when the value was sent.
TempoReachesAll ==
    \A t \in Tasks :
        ~Finished(t)
            => \A i \in 1 .. Len(tick_update_tx) :
                  tick_update_tx[i].from # t
                      => /\ tick_update_rx[t].sub
                         /\ i > tick_update_rx[t].next - received[t]

\* C7: device mutual exclusion.  At most one task is inside a device command,
\* and the device mutex is held exactly by the task inside a command: by no
\* task at the barrier, in a timed wait, or acquiring the counter's lock.
DeviceExclusive ==
    /\ Cardinality({t \in Tasks : pc[t] = "tone"}) <= 1
    /\ \A t \in Tasks : device = t <=> pc[t] = "tone"
    /\ device \in Tasks \cup {0}

\* C7 witness: one task is inside a device command while another waits for
\* the device.
DeviceExclusiveWitness ==
    \E t, u \in Tasks : pc[t] = "tone" /\ device = t /\ pc[u] = "note"

\* C9: orchestrator result.  main has returned only if every task has
\* finished; it returns Ok exactly when every task returned Ok, and else the
\* outcome of the first task, in spawn order, that did not.
OrchestratorResult ==
    main_pc = "returned"
        => /\ \A t \in Tasks : Finished(t)
           /\ main_result[1] = "Ok" <=> \A t \in Tasks : result[t] = "Ok"
           /\ main_result[1] # "Ok"
                 => /\ main_result[2] \in Tasks
                    /\ result[main_result[2]] = main_result[1]
                    /\ \A w \in Tasks : w < main_result[2] => result[w] = "Ok"

\* C9 witness: main has returned the error of the second task, the first
\* having returned Ok.
OrchestratorWitness ==
    /\ main_pc = "returned"
    /\ Len(tracks) = 2
    /\ main_result = <<"DeviceError", 2>>
    /\ result[1] = "Ok"

\* C10: with exactly one track, the broadcast of a tick duration never fails.
SoloSendNeverFails ==
    Len(tracks) = 1 => \A t \in Tasks : result[t] # "SendError"

\* C10 witness: the only track has just broadcast a tick duration, which its
\* own live subscription holds.
SoloSendWitness ==
    /\ Len(tracks) = 1
    /\ pc[1] = "next"
    /\ idx[1] = 1
    /\ tracks[1][1].kind = "TempoUpdate"
    /\ Len(tick_update_tx) = 1
    /\ Pending(1) = 1

\* the tempo branch has run once in task 1's wait (under SpecDrift)
Repriced == pc[1] = "loop" /\ received[1] = 1

\* round(e / old), half up
NearestTick(e, old) == (e + old \div 2) \div old

\* what the claim says the branch leaves: remaining = max(d - completed, 0),
\* wake_time moved by remaining * (new - old), tick_us = new
DriftAsClaimed ==
    LET d == tracks[1][1].delta
        old == timing.tick
        new == tick_update_tx[1].val
        completed == NearestTick(now - start_wait[1], old)
        remaining == IF d > completed THEN d - completed ELSE 0
        shift == next_time[1] - (origin[1] + d * old)
    IN  /\ remaining_ticks[1] = remaining
        /\ tick_us[1] = new
        /\ IF remaining = 0 \/ new = old
           THEN shift = 0
           ELSE shift % remaining = 0 /\ shift \div remaining = new - old

\* C2: drift correction.  After the tempo branch has run, remaining, the wake
\* time and tick_us are as the claim computes them, and the worked case
\* (d = 480, old = 500, new = 250, elapsed = 100000) wakes at 170000.
DriftCorrection ==
    Repriced
        => /\ DriftAsClaimed
           /\ (/\ tracks[1][1].delta = 480
               /\ timing.tick = 500
               /\ tick_us[1] = 250
               /\ now = 100000) => next_time[1] = 170000

\* the same, where remaining * |new - old| is below 2^32
DriftCorrectionBelow2p32 ==
    LET d == tracks[1][1].delta
        old == timing.tick
        new == tick_update_tx[1].val
    IN  ~MulOverflowsU32(RemainingTicks(d, now - start_wait[1], old),
                         ShiftFactor(old, new))
            => DriftCorrection

\* the worked case of C2 has run
DriftWorkedCase ==
    /\ Repriced
    /\ tracks[1][1].delta = 480
    /\ timing.tick = 500
    /\ tick_us[1] = 250
    /\ now = 100000
    /\ next_time[1] = 170000

\* a task inside play_track's loop over its events
Playing(t) == pc[t] \notin {"spawned", "barrier"} /\ ~Finished(t)

\* C6: no-tempo-change baseline.  For a task that has taken no tick duration
\* from the bus, the target wake time of its current event is
\* origin + tick * (d1 + ... + dk).
BaselineWake ==
    \A t \in Tasks :
        (Playing(t) /\ received[t] = 0)
            => LET since == next_time[t] - origin[t]
               IN  /\ since % timing.tick = 0
                   /\ since \div timing.tick = SumDeltas(tracks[t], idx[t])

\* the same, where every delta * tick_us so far is below 2^32
BaselineWakeBelow2p32 ==
    \A t \in Tasks :
        (/\ Playing(t)
         /\ received[t] = 0
         /\ \A i \in 1 .. idx[t] : ~MulOverflowsU32(tracks[t][i].delta, timing.tick))
            => LET since == next_time[t] - origin[t]
               IN  /\ since % timing.tick = 0
                   /\ since \div timing.tick = SumDeltas(tracks[t], idx[t])

\* a task that has returned a device or bus error out of play_track
Errored(t) == result[t] \in {"DeviceError", "SendError"}

\* C8: error isolation.  A track whose device command or bus send fails has
\* returned at once, holding neither lock, and dispatches nothing further;
\* the orchestrator does not return while another track still plays; and
\* every other track goes on to finish, returning Ok only once all of its
\* events are dispatched.
ErrorIsolation ==
    /\ [](\A t \in Tasks :
            Errored(t) => /\ pc[t] = "failed"
                          /\ device # t
                          /\ count_mutex # t)
    /\ [][\A t \in Tasks :
            Errored(t) => /\ idx'[t] = idx[t]
                          /\ pc'[t] = pc[t]
                          /\ result'[t] = result[t]]_vars
    /\ []((\E t \in Tasks : Errored(t)) /\ main_pc = "returned"
            => \A u \in Tasks : Finished(u))
    /\ (\E t \in Tasks : Errored(t))
          ~> (\A u \in Tasks :
                 /\ Finished(u)
                 /\ (result[u] = "Ok" => idx[u] = Len(tracks[u])))

\* one track has failed on the device and another now holds it for a command
ErrorIsolationWitness ==
    \E t \in Tasks : \E u \in Tasks \ {t} :
        /\ result[t] = "DeviceError"
        /\ pc[u] = "tone"
        /\ device = u

\* C11: the counter's maximum is monotone.  No step decreases
\* instrument_count.max.
MaxMonotone ==
    [][instrument_count'.max >= instrument_count.max]_vars

\* C11 witness: a note has been switched on and off again, and the maximum
\* stands above the current count.
MaxMonotoneWitness ==
    /\ count_mutex = 0
    /\ instrument_count.max = 1
    /\ instrument_count.current = 0

\* C12: lock independence.  No task holds the device guard and the counter's
\* guard together; a task that waits for one of the two holds neither; and
\* whoever holds one of them is at a point it leaves without any lock.
LockIndependence ==
    /\ \A t \in Tasks :
          /\ ~(device = t /\ count_mutex = t)
          /\ pc[t] \in {"note", "count"} => (device # t /\ count_mutex # t)
    /\ device # 0 => pc[device] = "tone"
    /\ count_mutex # 0 => pc[count_mutex] = "counting"

\* C12 witness: one task is inside a device command while another holds the
\* counter's guard.
LockIndependenceWitness ==
    \E t, u \in Tasks :
        /\ t # u
        /\ device = t
        /\ count_mutex = u

\* C13: the tone command's retry.  A write that times out (the step that
\* counts it) leaves the task inside the same command, the device still held
\* and nothing returned; the command is left only with Ok, the guard dropped,
\* or with the error of a write that failed otherwise.
ToneRetry ==
    [][\A t \in Tasks :
          pc[t] = "tone"
              => IF num_timed_out'[t] = num_timed_out[t] + 1
                 THEN /\ pc'[t] = "tone"
                      /\ device' = t
                      /\ result'[t] = "None"
                      /\ idx'[t] = idx[t]
                 ELSE pc'[t] # "tone"
                          => \/ /\ pc'[t] = "count"
                                /\ result'[t] = "None"
                                /\ device' = 0
                             \/ /\ pc'[t] = "failed"
                                /\ result'[t] = "DeviceError"]_vars

\* C13 witness: a write has timed out and the task is writing again
ToneRetryWitness ==
    \E t \in Tasks : pc[t] = "tone" /\ device = t /\ num_timed_out[t] = 2

\* C14: common time origin.  Any two tasks that are playing took the same
\* instant as the origin of their wake times.
CommonOrigin ==
    \A t, u \in Tasks :
        (Playing(t) /\ Playing(u)) => origin[t] = origin[u]

\* handle_tempo_update has sent its value (under SpecTempo)
Broadcast == pc[1] = "next" /\ Len(tick_update_tx) = 1

\* C15 as stated: the value broadcast is (new_us_per_beat / ticks_per_beat)
\* / tempo_multiplier, so that with the multiplier 2.0 it is half of
\* new_us_per_beat / ticks_per_beat.
TempoScalesExactly ==
    Broadcast
        => LET new == tracks[1][1].us_per_beat
               tpb == timing.ticks_per_beat
               v == tick_update_tx[1].val
           IN  IF speed.tempo >= 0
               THEN v * tpb * Pow2(speed.tempo) = new
               ELSE v * tpb = new * Pow2(0 - speed.tempo)

\* C15, amended: the value broadcast is the whole number of microseconds
\* nearest to (new_us_per_beat / ticks_per_beat) / tempo_multiplier, a half
\* rounding up; with the multiplier 2.0 it is within half a microsecond of
\* half of new_us_per_beat / ticks_per_beat, and exactly half when
\* new_us_per_beat is a multiple of 2 * ticks_per_beat.
TempoScalesRounded ==
    Broadcast
        => LET new == tracks[1][1].us_per_beat
               tpb == timing.ticks_per_beat
               v == tick_update_tx[1].val
               n == IF speed.tempo >= 0 THEN new ELSE new * Pow2(0 - speed.tempo)
               d == IF speed.tempo >= 0 THEN tpb * Pow2(speed.tempo) ELSE tpb
           IN  /\ 2 * d * v <= 2 * n + d
               /\ 2 * n + d < 2 * d * (v + 1)
               /\ speed.tempo = 1
                    => /\ 2 * tpb * v - new <= tpb
                       /\ new - 2 * tpb * v < tpb
                       /\ new % (2 * tpb) = 0 => 2 * tpb * v = new

\* C15 witness: at the multiplier 2.0, 3 us per beat at one tick per beat
\* (1.5 us per tick) have been broadcast as 2.
TempoScalesWitness ==
    /\ Broadcast
    /\ speed.tempo = 1
    /\ tracks[1][1].us_per_beat = 3
    /\ timing.ticks_per_beat = 1
    /\ tick_update_tx[1].val = 2

\* round(f * pitch) as a u16, a half rounding away from zero
RoundedFrequency(key, pitch) ==
    LET f == KeyToFrequency(key)
        n == f.num * pitch.num
        d == f.den * pitch.den
        q == (2 * n + d) \div (2 * d)
    IN  IF q > U16Max THEN U16Max ELSE q

\* C16: pitch scaling.  The frequency the device is given for key k is
\* round(base_frequency(k) * pitch_multiplier) as a u16.
PitchRounded ==
    \A t \in Tasks :
        (pc[t] = "count" /\ Len(tones[t]) = 1)
            => tones[t][1].freq = RoundedFrequency(tracks[t][1].key, speed.pitch)

\* C17: playback terminates.  The orchestrator returns in the end, and by
\* then every track that met no device failure has returned Ok with all of
\* its events dispatched.
PlaybackCompletes ==
    /\ <>(main_pc = "returned")
    /\ [](main_pc = "returned"
            => \A t \in Tasks :
                  \/ result[t] = "DeviceError"
                  \/ result[t] = "Ok" /\ idx[t] = Len(tracks[t]))

\* every task ends one way or another and the orchestrator returns
PlaybackEnds ==
    <>(main_pc = "returned" /\ \A t \in Tasks : Finished(t))

\* the positions of a task whose current event is being dispatched
Dispatching == {"note", "tone", "count", "counting", "tempo"}

\* C18: only the timer's expiry ends a wait.  A task goes from its wait to
\* the dispatch of the event (or past an event that has nothing to dispatch)
\* only in a step that takes nothing from the bus, with the clock at or past
\* its wake time; a step that takes a tick duration from the bus leaves the
\* task in the wait for the same event.
OnlyTimerEndsWait ==
    [][\A t \in Tasks :
          /\ (pc[t] \in {"select", "loop", "sleep"}
                /\ pc'[t] \in Dispatching \cup {"next"})
                => /\ now >= next_time[t]
                   /\ received'[t] = received[t]
                   /\ next_time'[t] = next_time[t]
          /\ received'[t] = received[t] + 1
                => /\ pc[t] = "select"
                   /\ pc'[t] = "loop"
                   /\ idx'[t] = idx[t]
                   /\ tones'[t] = tones[t]
                   /\ tick_update_tx' = tick_update_tx
                   /\ instrument_count' = instrument_count]_vars

\* C18 witness: a task that has taken a tick duration from the bus waits
\* again, its wake time still ahead.
OnlyTimerWitness ==
    \E t \in Tasks :
        /\ pc[t] = "select"
        /\ received[t] >= 1
        /\ now < next_time[t]
        /\ start_wait[t] > 0

\* what a step that takes the tick duration new from the bus does to task
\* t's wait, in the terms of C19: the ticks now counted as completed,
\* rem - rem', are none too many, the remaining ticks do not grow, and the
\* wake time moves by rem' * (new - old).  With wake = start + d * old at the
\* beginning of the wait this is the induction step of
\*   wake = start + sum (completed under each earlier rate * that rate)
\*          + remaining * tick_us.
ContinuityStep(t) ==
    LET old == tick_us[t]
        new == tick_us'[t]
        rem == remaining_ticks[t]
        left == remaining_ticks'[t]
        shift == next_time'[t] - next_time[t]
    IN  /\ new = tick_update_tx[tick_update_rx[t].next + 1].val
        /\ left >= 0
        /\ left <= rem
        /\ rem <= CurrentEvent(t).delta
        /\ IF left = 0 \/ new = old
           THEN shift = 0
           ELSE shift % left = 0 /\ shift \div left = new - old

\* C19: tick-position continuity over several tempo changes in one wait.
\* Every tick duration taken from the bus during a wait keeps the account of
\* the wait: completed ticks never exceed d, remaining ticks never increase,
\* and the wake time is the completed ticks at their rates plus the
\* remaining ticks at the current one.
TickContinuity ==
    [][\A t \in Tasks :
          received'[t] = received[t] + 1 => ContinuityStep(t)]_vars

\* the same, where remaining * |new - old| is below 2^32
TickContinuityBelow2p32 ==
    [][\A t \in Tasks :
          (/\ received'[t] = received[t] + 1
           /\ ~MulOverflowsU32(remaining_ticks'[t],
                               ShiftFactor(tick_us[t], tick_us'[t])))
              => ContinuityStep(t)]_vars

\* both tick durations have been taken in the one wait, ticks still remaining
TwiceRepriced ==
    /\ received[1] = 2
    /\ remaining_ticks[1] > 0
    /\ remaining_ticks[1] < tracks[1][1].delta

\* the device commands of the NoteUpdate events among a track's first j
\* events, in the track's order
RECURSIVE NoteCommands(_, _)
NoteCommands(track, j) ==
    IF j <= 0
    THEN <<>>
    ELSE IF track[j].kind = "NoteUpdate"
         THEN Append(NoteCommands(track, j - 1),
                     [freq |-> ToneFrequency(track[j].key, speed.pitch),
                      vel |-> track[j].vel])
         ELSE NoteCommands(track, j - 1)

\* the tick durations of the TempoUpdate events among a track's first j
\* events, in the track's order
RECURSIVE TempoValues(_, _)
TempoValues(track, j) ==
    IF j <= 0
    THEN <<>>
    ELSE IF track[j].kind = "TempoUpdate"
         THEN Append(TempoValues(track, j - 1),
                     UsPerTickAdjusted(track[j].us_per_beat,
                                       timing.ticks_per_beat, speed.tempo))
         ELSE TempoValues(track, j - 1)

\* the values task t has put on the bus, in the order of the sends
SentBy(t) ==
    LET mine == SelectSeq(tick_update_tx, LAMBDA m : m.from = t)
    IN  [i \in 1 .. Len(mine) |-> mine[i].val]

\* the commands and broadcasts of task t are those of its events so far, in
\* their order and once each: of the first idx where the current event's has
\* been issued, of the first idx - 1 where it has not
InTrackOrder(t) ==
    LET track == tracks[t]
        upto == idx[t]
        before == idx[t] - 1
    IN  /\ tones[t] \in {NoteCommands(track, upto), NoteCommands(track, before)}
        /\ pc[t] \in {"count", "counting", "next", "done"}
              => tones[t] = NoteCommands(track, upto)
        /\ pc[t] \in {"select", "loop", "sleep", "note", "tone"}
              => tones[t] = NoteCommands(track, before)
        /\ SentBy(t) \in {TempoValues(track, upto), TempoValues(track, before)}
        /\ pc[t] \in {"next", "done"} => SentBy(t) = TempoValues(track, upto)
        /\ pc[t] \in {"select", "loop", "sleep", "tempo"}
              => SentBy(t) = TempoValues(track, before)
        /\ result[t] = "Ok" => upto = Len(track)

\* C20: per-track order.  Each track's device commands and broadcasts are
\* those of its NoteUpdate and TempoUpdate events in the track's order, each
\* once, and all of them once the track has returned Ok; events are taken
\* one at a time in sequence, and only a NoteUpdate being dispatched changes
\* the counter.
PerTrackOrder ==
    /\ [](\A t \in Tasks : InTrackOrder(t))
    /\ [][/\ \A t \in Tasks : idx'[t] \in {idx[t], idx[t] + 1}
          /\ instrument_count' # instrument_count
                => \E t \in Tasks : /\ pc[t] = "counting"
                                    /\ pc'[t] # "counting"
                                    /\ CurrentEvent(t).kind = "NoteUpdate"]_vars

\* C20 witness: a track of a tempo change, a note-on and a note-off has
\* returned Ok, with the one broadcast and the two commands behind it.
PerTrackOrderWitness ==
    /\ Len(tracks) = 1
    /\ result[1] = "Ok"
    /\ Len(SentBy(1)) = 1
    /\ Len(tones[1]) = 2
    /\ tones[1][1].vel # 0
    /\ tones[1][2].vel = 0

\* a task between the match arm of a NoteUpdate and the end of
\* handle_note_update
InNoteDispatch(t) == pc[t] \in {"note", "tone", "count", "counting"}

\* the commands of a task that the device has taken, note-ons or note-offs
Dispatched(t, on) ==
    Cardinality({i \in DOMAIN tones[t] : (tones[t][i].vel # 0) = on})

RECURSIVE DispatchedUpTo(_, _)
DispatchedUpTo(n, on) ==
    IF n = 0 THEN 0 ELSE Dispatched(n, on) + DispatchedUpTo(n - 1, on)

\* the counter the claim expects after a note of velocity vel
CountAsClaimed(ic, vel) ==
    IF vel # 0
    THEN [current |-> ic.current + 1,
          max |-> IF ic.current + 1 > ic.max THEN ic.current + 1 ELSE ic.max]
    ELSE [current |-> ic.current - 1, max |-> ic.max]

\* a task leaves the critical section of the counter
Counted(t) == pc[t] = "counting" /\ pc'[t] # "counting"

\* C21: note dispatch effect.  A task whose device command has succeeded
\* changes the counter once, when it leaves the counter's critical section:
\* current + 1 for a velocity other than 0 (max following current up),
\* current - 1 for velocity 0; nothing else changes the counter; and while
\* no task is inside a note dispatch, current is the number of note-ons the
\* device has taken minus the number of note-offs.
NoteDispatchEffect ==
    /\ [][/\ \A t \in Tasks :
                Counted(t) => instrument_count' =
                                  CountAsClaimed(instrument_count,
                                                 CurrentEvent(t).vel)
          /\ instrument_count' # instrument_count
                => \E t \in Tasks : Counted(t)]_vars
    /\ []((\A t \in Tasks : ~InNoteDispatch(t))
            => instrument_count.current =
                  DispatchedUpTo(Len(tracks), TRUE)
                      - DispatchedUpTo(Len(tracks), FALSE))

\* the same step, where the usize neither underflows nor overflows
NoteDispatchEffectInRange ==
    [][/\ \A t \in Tasks :
             (Counted(t) /\ ~CountOverflows(instrument_count, CurrentEvent(t).vel))
                 => instrument_count' =
                        CountAsClaimed(instrument_count, CurrentEvent(t).vel)
       /\ instrument_count' # instrument_count
             => \E t \in Tasks : Counted(t)]_vars

\* the timer branch of the select ends the wait of a task
WaitEnds(t) ==
    pc[t] \in {"select", "sleep"} /\ pc'[t] \in {"note", "tempo", "next"}

\* the newest value on the bus is one the task broadcast itself
OwnTempoNewest(t) ==
    /\ Len(tick_update_tx) > 0
    /\ tick_update_tx[Len(tick_update_tx)].from = t

\* C22: the emitting track adopts its own tempo.  When the wait of an event
\* ends in a task whose own broadcast is the newest tick duration, the wake
\* time it ends at is the previous wake time + delta * that tick duration.
EmitterAdoptsTempo ==
    [][\A t \in Tasks :
          (WaitEnds(t) /\ OwnTempoNewest(t))
              => next_time[t] =
                    previous_wake[t]
                        + CurrentEvent(t).delta
                              * tick_update_tx[Len(tick_update_tx)].val]_vars

\* the tick duration sent last
LatestTick == tick_update_tx[Len(tick_update_tx)].val

\* every task inside its loop has taken all that its receiver holds
AllConsumed == \A t \in Tasks : Playing(t) => Pending(t) = 0

\* C23: tempo agreement.  Once a tick duration has been broadcast, whenever
\* every unfinished task has consumed everything pending on its receiver,
\* every unfinished task's tick_us is the value broadcast last.
TempoAgreement ==
    (Len(tick_update_tx) > 0 /\ AllConsumed)
        => \A t \in Tasks : Playing(t) => tick_us[t] = LatestTick

\* the same among tasks that subscribed before the first send and have
\* taken every value since
TempoAgreementOfEarlySubscribers ==
    (Len(tick_update_tx) > 0 /\ AllConsumed)
        => \A t \in Tasks :
              (Playing(t) /\ received[t] = Len(tick_update_tx))
                  => tick_us[t] = LatestTick

\* the device command of a task returns an error
DeviceFails(t) == pc[t] = "tone" /\ pc'[t] = "failed"

\* C24: no counter change on device failure.  When the device command of a
\* note returns an error, the task ends with that error, the counter is as
\* it was, and the device lock is free.
NoCountOnDeviceError ==
    [][\A t \in Tasks :
          DeviceFails(t)
              => /\ result'[t] = "DeviceError"
                 /\ instrument_count' = instrument_count
                 /\ device' = 0]_vars

\* track 1 of Duo has failed at its note, holding the device, and track 2
\* holds the device for its own note
NoCountOnDeviceErrorWitness ==
    /\ tracks = Duo.tracks
    /\ result[1] = "DeviceError"
    /\ device = 2
    /\ pc[2] = "tone"
    /\ instrument_count = [current |-> 0, max |-> 0]

\* the recv of a waiting task returns the error Lagged
LagStep(t) ==
    /\ pc[t] = "select"
    /\ Lagged(t)
    /\ tick_update_rx'[t] # tick_update_rx[t]

\* C25: bus receive errors are harmless to the wait.  A task whose recv
\* returns an error instead of a value does not end and keeps its wake time
\* and tick_us; from then on that wait takes nothing from the bus, and it
\* ends by the timer, the clock at or past the unchanged wake time.
BusErrorHarmless ==
    [][\A t \in Tasks :
          /\ LagStep(t)
                => /\ pc'[t] = "sleep"
                   /\ result'[t] = "None"
                   /\ idx'[t] = idx[t]
                   /\ next_time'[t] = next_time[t]
                   /\ tick_us'[t] = tick_us[t]
          /\ pc[t] = "sleep"
                => /\ next_time'[t] = next_time[t]
                   /\ tick_us'[t] = tick_us[t]
                   /\ received'[t] = received[t]
                   /\ \/ pc'[t] = "sleep"
                      \/ /\ pc'[t] = DispatchPc(CurrentEvent(t))
                         /\ now >= next_time[t]]_vars

\* the track of Storm has sent nine values and taken none; the wait of its
\* tenth event met the error and has ended on the timer at wake time 2 with
\* tick_us still 2, the receiver at the oldest value the bus holds
BusErrorWitness ==
    /\ tracks = Storm.tracks
    /\ idx[1] = 10
    /\ pc[1] = "next"
    /\ received[1] = 0
    /\ tick_update_rx[1].next = Len(tick_update_tx) - BusCapacity
    /\ Len(tick_update_tx) = BusCapacity + 1
    /\ tick_us[1] = 2
    /\ next_time[1] = 2

\* p = a * b, without forming the product
IsProduct(p, a, b) ==
    IF a = 0 \/ b = 0 THEN p = 0 ELSE p % b = 0 /\ p \div b = a

\* how far a step moves the wake time of a task, either way
WakeMoves(t) ==
    IF next_time'[t] >= next_time[t]
    THEN next_time'[t] - next_time[t]
    ELSE next_time[t] - next_time'[t]

\* C26: 32-bit timing arithmetic.  When a task takes its next event, its
\* wake time advances by the low 32 bits of delta * tick_us, which is
\* delta * tick_us exactly when that product is below 2^32; when it takes a
\* tick duration from the bus, its wake time moves by the low 32 bits of
\* remaining * |new - old|, which is that product exactly when it is below
\* 2^32.
Timing32 ==
    [][\A t \in Tasks :
          /\ (pc[t] = "next" /\ pc'[t] = "select")
                => LET delta == tracks[t][idx'[t]].delta
                   IN  /\ WakeMoves(t) = WrappingMulU32(delta, tick_us[t])
                       /\ next_time'[t] >= next_time[t]
                       /\ IsProduct(WakeMoves(t), delta, tick_us[t])
                             <=> ~MulOverflowsU32(delta, tick_us[t])
          /\ received'[t] = received[t] + 1
                => LET factor == ShiftFactor(tick_us[t], tick_us'[t])
                       remaining == remaining_ticks'[t]
                   IN  /\ WakeMoves(t) = WrappingMulU32(remaining, factor)
                       /\ IsProduct(WakeMoves(t), remaining, factor)
                             <=> ~MulOverflowsU32(remaining, factor)]_vars

\* the track of Wide in a build that wraps: 10000000 * 500 = 5000000000 has
\* advanced the wake time by 705032704
Timing32Witness ==
    /\ tracks = Wide.tracks
    /\ ~overflow_checks
    /\ pc[1] = "select"
    /\ idx[1] = 1
    /\ previous_wake[1] = 0
    /\ next_time[1] = 705032704
    /\ MulOverflowsU32(CurrentEvent(1).delta, tick_us[1])


====
